---------------------------- MODULE Spec2Model ----------------------------
(***************************************************************************)
(* Forensic Dental AI demo (src/app.py): the session state of the         *)
(* Streamlit script and the fingerprint -> findings generator.             *)
(*                                                                         *)
(* Units.  Intensity statistics (mean, std) are integers in thousandths   *)
(* of an intensity level, entropy in thousandths of a bit.  A drawn        *)
(* confidence is in units of 1e-5, an emitted (rounded) confidence in      *)
(* thousandths, a metric rounded to one decimal in tenths of a percent.    *)
(***************************************************************************)
EXTENDS Integers, Sequences, FiniteSets, TLC

VARIABLES
    \* st.session_state of src/app.py
    current_image, current_name, degraded, enhanced, analysis_done,
    degradation_type, severity, metrics, teeth_data, image_fingerprint,
    \* the file held by the uploader widget between script runs
    uploaded_file,
    \* the process-wide numpy generator, and the outcome of the last script run
    rng, last_run,
    \* direct invocations of the generator functions
    gImg, gOrig, gRuns, gProbe,
    \* the split-module app src/src/app.py: the uploader's file, the sample
    \* selectbox, st.session_state, the image the stored analysis_results were
    \* computed from (a history variable) and the outcome of its last run
    split_uploaded_file, selected_sample, session_state, results_image, split_run

session == <<current_image, current_name, degraded, enhanced, analysis_done,
             degradation_type, severity, metrics, teeth_data, image_fingerprint>>
gen     == <<gImg, gOrig, gRuns, gProbe>>
split   == <<split_uploaded_file, selected_sample, session_state, results_image,
             split_run>>
vars    == <<session, uploaded_file, rng, last_run, gen, split>>

\* Python's None; a stored list is wrapped as [list |-> ...] so that every
\* nullable field holds a record
Null == [none |-> TRUE]

---------------------------------------------------------------------------
(* Bounds of the model *)

\* number of states of the abstract pseudo-random generator
RngMod == 4
\* longest position list handed to the generator besides the fixed one
MaxPosLen == 1

---------------------------------------------------------------------------
(* Arithmetic helpers *)

Min(a, b) == IF a <= b THEN a ELSE b
Max(a, b) == IF a >= b THEN a ELSE b
Abs(a) == IF a < 0 THEN -a ELSE a

\* round(x / d) to the nearest integer, ties to even (Python's round and
\* '.2f' formatting on an exactly representable value); x >= 0, d > 0
RoundDiv(x, d) ==
    LET q == x \div d
        r == x % d
    IN  IF 2 * r < d THEN q
        ELSE IF 2 * r > d THEN q + 1
        ELSE IF q % 2 = 0 THEN q ELSE q + 1

RECURSIVE SumSeq(_)
SumSeq(s) == IF s = <<>> THEN 0 ELSE Head(s) + SumSeq(Tail(s))

RECURSIVE Count(_, _)
Count(s, set) ==
    IF s = <<>> THEN 0
    ELSE (IF Head(s).condition \in set THEN 1 ELSE 0) + Count(Tail(s), set)

---------------------------------------------------------------------------
(* The numpy global generator, abstracted to RngMod states *)

\* np.random.seed(n)
Seed(n) == (7 * n + 1) % RngMod

\* one draw: the generator advances, the new state is the uniform sample
\* u = state / RngMod in [0, 1)
Step(s) == (s + 1) % RngMod

RECURSIVE Steps(_, _)
Steps(s, n) == IF n = 0 THEN s ELSE Steps(Step(s), n - 1)

---------------------------------------------------------------------------
(* Images: the statistics the program reads, and the derivation that tells *)
(* two samples apart                                                       *)

Img(src, ops, shape, mean, std, ent) ==
    [src |-> src, ops |-> ops, shape |-> shape, mean |-> mean, std |-> std, ent |-> ent]

\* 600x400 'L' image, background 120, sixteen 31x51 rectangles of 200:
\* mean 128.432, std 24.566, entropy 0.486 bits
create_simple_xray == Img("simple_xray", <<>>, <<400, 600>>, 128432, 24566, 486)

DENTAL_IMAGE_LIBRARY == <<"Panoramic X-ray 1", "Panoramic X-ray 2", "Bitewing X-ray">>


\* the three library pictures as served over the network (statistics of the
\* remote files are inputs of the model)
LibraryImage(name) ==
    CASE name = "Panoramic X-ray 1" -> Img(name, <<>>, <<400, 600>>, 90000, 40002, 6500)
      [] name = "Panoramic X-ray 2" -> Img(name, <<>>, <<400, 600>>, 110000, 14998, 5000)
      [] OTHER                      -> Img(name, <<>>, <<300, 500>>, 60000, 63750, 7000)

\* load_dental_image: the download succeeds, or anything fails and the
\* synthetic picture is returned
load_dental_image(image_name, ok) ==
    IF ok THEN LibraryImage(image_name) ELSE create_simple_xray

---------------------------------------------------------------------------
(* generate_image_fingerprint *)

\* f"{x:.2f}": thousandths to hundredths
Format2f(x) == RoundDiv(x, 10)

\* hashlib.md5(...).hexdigest()[:8] as the two 16-bit halves hi, lo of the
\* 32-bit value; a mixing function of the formatted string's three parts
Md5Hex8(shape, mean2, std2) ==
    LET x == shape[1] * 31 + shape[2] * 17 + mean2 * 7 + std2 * 13
    IN  [hi |-> ((x % 65536) * 251 + 12345) % 65536,
         lo |-> ((x % 65521) * 509 + std2 * 3 + mean2) % 65536]

generate_image_fingerprint(image) ==
    Md5Hex8(image.shape, Format2f(image.mean), Format2f(image.std))

\* int(fingerprint, 16) % 10000, with 65536 % 10000 = 5536
BaseSeed(fingerprint) ==
    ((fingerprint.hi % 10000) * 5536 + fingerprint.lo) % 10000

---------------------------------------------------------------------------
(* analyze_image_quality, calculate_entropy *)

\* Shannon entropy of the 256-bin histogram over the nonzero bins
calculate_entropy(image) == image.ent

analyze_image_quality(image) ==
    LET mean_intensity == image.mean
        contrast == image.std
        entropy == calculate_entropy(image)
    IN  [clarity            |-> RoundDiv(Min(128000, contrast), 128),
         sharpness          |-> RoundDiv(Min(8000, entropy), 8),
         brightness_balance |-> RoundDiv(Min(100000, Abs(128000 - mean_intensity) * 2), 100),
         contrast_level     |-> RoundDiv(contrast, 100),
         mean_intensity     |-> RoundDiv(mean_intensity, 100)]

---------------------------------------------------------------------------
(* detect_teeth_based_on_image *)

\* position codes are two-character strings; int("18") = 10 * 1 + 8
all_teeth ==
    << [number |-> <<1, 8>>, name |-> "Third Molar",     type |-> "Wisdom Tooth"],
       [number |-> <<1, 7>>, name |-> "Second Molar",    type |-> "Molar"],
       [number |-> <<1, 6>>, name |-> "First Molar",     type |-> "Molar"],
       [number |-> <<1, 5>>, name |-> "Second Premolar", type |-> "Premolar"],
       [number |-> <<1, 4>>, name |-> "First Premolar",  type |-> "Premolar"],
       [number |-> <<1, 3>>, name |-> "Canine",          type |-> "Canine"],
       [number |-> <<1, 2>>, name |-> "Lateral Incisor", type |-> "Incisor"],
       [number |-> <<1, 1>>, name |-> "Central Incisor", type |-> "Incisor"],
       [number |-> <<2, 1>>, name |-> "Central Incisor", type |-> "Incisor"],
       [number |-> <<2, 2>>, name |-> "Lateral Incisor", type |-> "Incisor"],
       [number |-> <<2, 3>>, name |-> "Canine",          type |-> "Canine"],
       [number |-> <<2, 4>>, name |-> "First Premolar",  type |-> "Premolar"],
       [number |-> <<2, 5>>, name |-> "Second Premolar", type |-> "Premolar"],
       [number |-> <<2, 6>>, name |-> "First Molar",     type |-> "Molar"],
       [number |-> <<2, 7>>, name |-> "Second Molar",    type |-> "Molar"],
       [number |-> <<2, 8>>, name |-> "Third Molar",     type |-> "Wisdom Tooth"] >>

\* all_teeth[:8]
AnalyzedTeeth == SubSeq(all_teeth, 1, 8)

IntOfNumber(number) == 10 * number[1] + number[2]

conditions ==
    <<"Healthy", "Filled", "Crowned", "Root Canal", "Impacted", "Missing", "Carious">>

\* faulty variant: the threshold taken inclusively
condition_weights_Inclusive(std_val) ==
    IF std_val <= 30000
    THEN <<400, 200, 100, 100, 100, 80, 20>>
    ELSE <<600, 150, 80, 60, 50, 40, 20>>

\* faulty variant: a low-contrast table that sums to 0.99
condition_weights_BadSum(std_val) ==
    IF std_val < 30000
    THEN <<400, 200, 100, 100, 100, 80, 10>>
    ELSE <<600, 150, 80, 60, 50, 40, 20>>

\* probabilities in thousandths
condition_weights(std_val) ==
    IF std_val < 30000
    THEN <<400, 200, 100, 100, 100, 80, 20>>
    ELSE <<600, 150, 80, 60, 50, 40, 20>>

\* faulty variant: the seed goes to another generator, the global one keeps its state
np_random_seed_Ignored(s, n) == s

\* np.random.seed(n) replaces the state of the global generator
np_random_seed(s, n) == Seed(n)

\* faulty variant: no per-tooth reseed, the teeth share the running generator
ToothGenerator_Shared(s, tooth_seed) == s

\* line 182: every tooth draws from a generator seeded for that tooth alone
ToothGenerator(s, tooth_seed) == np_random_seed(s, tooth_seed)

\* np.random.choice(a, p=p): ValueError unless the probabilities sum to 1
ChoiceRaises(p) == SumSeq(p) # 1000

\* np.random.choice(a, p=p): one uniform sample u, the index is the number of
\* entries of cumsum(p) that are <= u (searchsorted, side='right')
np_random_choice(a, p, s) ==
    LET s1 == Step(s)
        idx == Cardinality({i \in 1..Len(p) :
                               SumSeq(SubSeq(p, 1, i)) * RngMod <= s1 * 1000})
    IN  [value |-> a[Min(idx + 1, Len(a))], rng |-> s1]

\* np.random.uniform(0.75, 0.98), in units of 1e-5
np_random_uniform(s) ==
    LET s1 == Step(s)
    IN  [value |-> 75000 + (23000 * s1) \div RngMod, rng |-> s1]

\* faulty variant: the lower threshold taken inclusively
adjust_confidence_Inclusive(confidence, std_val) ==
    IF std_val <= 25000 THEN confidence * 8
    ELSE IF std_val > 80000 THEN confidence * 11
    ELSE confidence * 10

\* the adjustment of lines 188-191; the result is in units of 1e-6
adjust_confidence(confidence, std_val) ==
    IF std_val < 25000 THEN confidence * 8
    ELSE IF std_val > 80000 THEN confidence * 11
    ELSE confidence * 10

\* round(confidence, 3), in thousandths
Round3(confidence6) == RoundDiv(confidence6, 1000)

\* the loop of lines 179-199 over the remaining positions; the generator
\* state is threaded through as the global it is
RECURSIVE DetectLoop(_, _, _, _, _)
DetectLoop(teeth, seed, std_val, s, acc) ==
    IF teeth = <<>> THEN [teeth_data |-> acc, rng |-> s]
    ELSE
        LET tooth == Head(teeth)
            tooth_seed == seed + IntOfNumber(tooth.number)
            s1 == ToothGenerator(s, tooth_seed)
            c == np_random_choice(conditions, condition_weights(std_val), s1)
            u == np_random_uniform(c.rng)
            rec == [number     |-> tooth.number,
                    name       |-> tooth.name,
                    type       |-> tooth.type,
                    condition  |-> c.value,
                    confidence |-> Round3(adjust_confidence(u.value, std_val))]
        IN  DetectLoop(Tail(teeth), seed, std_val, u.rng, Append(acc, rec))

\* detect_teeth_based_on_image over a given position list, from generator
\* state s; the program always passes AnalyzedTeeth
DetectTeethOn(image, teeth, s) ==
    LET fingerprint == generate_image_fingerprint(image)
        seed == BaseSeed(fingerprint)
        s0 == np_random_seed(s, seed)
    IN  DetectLoop(teeth, seed, image.std, s0, <<>>)

DetectRaises(image) ==
    Len(AnalyzedTeeth) > 0 /\ ChoiceRaises(condition_weights(image.std))

detect_teeth_based_on_image(image, s) == DetectTeethOn(image, AnalyzedTeeth, s)

---------------------------------------------------------------------------
(* calculate_forensic_metrics_based_on_image *)

\* len(teeth_data) = 0 divides by zero
MetricsRaises(td) == Len(td) = 0

\* faulty variant: the cap left out
forensic_utility_Uncapped(base_utility, dental_utility) ==
    base_utility + dental_utility

\* min(100, base_utility + dental_utility), in thousandths of a percent
forensic_utility(base_utility, dental_utility) ==
    Min(100000, base_utility + dental_utility)

\* min(100, 50 + distinctive_features * 8 + forensic_utility * 0.4),
\* in units of 1e-4 percent
id_confidence(distinctive_features, fu) ==
    Min(1000000, 500000 + distinctive_features * 80000 + fu * 4)

calculate_forensic_metrics_based_on_image(original_img, enhanced_img, td) ==
    LET orig_quality == analyze_image_quality(original_img)
        enhanced_quality == analyze_image_quality(enhanced_img)
        clarity_improvement == enhanced_quality.clarity - orig_quality.clarity
        sharpness_improvement == enhanced_quality.sharpness - orig_quality.sharpness
        healthy_count == Count(td, {"Healthy"})
        treated_count == Count(td, {"Filled", "Crowned", "Root Canal"})
        issue_count == Count(td, {"Impacted", "Missing", "Carious"})
        base_utility == enhanced_quality.clarity * 40 + enhanced_quality.sharpness * 30
        dental_utility == (healthy_count * 30000) \div Len(td)
                          + (treated_count * 40000) \div Len(td)
        fu == forensic_utility(base_utility, dental_utility)
        distinctive_features == treated_count + issue_count
        idc == id_confidence(distinctive_features, fu)
    IN  [image_clarity             |-> enhanced_quality.clarity,
         sharpness_quality         |-> enhanced_quality.sharpness,
         clarity_improvement       |-> clarity_improvement,
         sharpness_improvement     |-> sharpness_improvement,
         forensic_utility          |-> RoundDiv(fu, 100),
         identification_confidence |-> RoundDiv(idc, 1000),
         distinctive_features      |-> distinctive_features,
         dental_health_score       |-> RoundDiv(healthy_count * 1000, Len(td))]

---------------------------------------------------------------------------
(* apply_degradation, enhance_image: library filters, modelled by their    *)
(* effect on the statistics; sev is the slider value, severity = sev / 10  *)

Derived(image, op, mean, std, ent) ==
    Img(image.src, Append(image.ops, op), image.shape, mean, std, ent)

\* GaussianBlur(radius): radius 0 changes nothing
Blurred(std, radius) == IF radius > 0 THEN (std * 9) \div 10 ELSE std

\* np.random.randint(0, n) raises ValueError unless n > 0
RandintRaises(n) == n <= 0

\* int(3 * severity) patches of side int(20 * severity)
TraumaPatches(sev) == (3 * sev) \div 10
TraumaPatchSize(sev) == 2 * sev

ApplyRaises(image, dtype, sev) ==
    /\ dtype = "Trauma Damage"
    /\ TraumaPatches(sev) > 0
    /\ \/ RandintRaises(image.shape[2] - TraumaPatchSize(sev))
       \/ RandintRaises(image.shape[1] - TraumaPatchSize(sev))

\* the returned image and the generator state after the call (no raise)
apply_degradation(image, dtype, sev, s) ==
    CASE dtype = "Thermal Damage" ->
            \* normal noise of sigma 50 * severity, clipped, then blur int(severity)
            LET s1 == Step(s)
                sigma == 5000 * sev
                noisy == Min(127500, Max(image.std, sigma) + Min(image.std, sigma) \div 2 + s1)
            IN  [image |-> Derived(image, <<dtype, sev, s1>>, image.mean,
                                   Blurred(noisy, sev \div 10),
                                   Min(8000, image.ent + 300 * sev)),
                 rng |-> s1]
      [] dtype = "Water Damage" ->
            \* blur int(2 * severity), then contrast 0.6
            [image |-> Derived(image, <<dtype, sev, 0>>, image.mean,
                               (Blurred(image.std, (2 * sev) \div 10) * 6) \div 10,
                               (image.ent * 9) \div 10),
             rng |-> s]
      [] OTHER ->
            \* "Trauma Damage": two randint draws per patch, the patch set to 0
            LET k == TraumaPatches(sev)
                s1 == Steps(s, 2 * k)
                area == k * TraumaPatchSize(sev) * TraumaPatchSize(sev)
                permille == (area * 1000) \div (image.shape[1] * image.shape[2])
            IN  [image |-> Derived(image, <<dtype, sev, IF k > 0 THEN s1 ELSE 0>>,
                                   image.mean - (image.mean \div 1000) * permille,
                                   Min(127500, image.std + k * 100 * permille),
                                   Min(8000, image.ent + 50 * k)),
                 rng |-> s1]

\* Contrast(2.0) then Sharpness(2.0); a constant image stays constant
enhance_image(image) ==
    Derived(image, <<"enhance", 0, 0>>, image.mean,
            Min(127500, 2 * image.std),
            Min(8000, image.ent + image.ent \div 10))

---------------------------------------------------------------------------
(* The script of src/app.py, lines 375-611.  A record S holds              *)
(* st.session_state, the generator and what the run did: aborted names the *)
(* handler whose uncaught exception ended the run ("no" if none did).      *)

DegradationTypes == {"Thermal Damage", "Water Damage", "Trauma Damage"}

\* values of the severity slider (1..10, default 5) the model moves it to
SliderValues == {3, 10}

\* files the user can put in the uploader: a flat gray picture and a small
\* high-contrast one
UploadFiles ==
    { [name |-> "flat.png",  image |-> Img("flat.png",  <<>>, <<400, 600>>, 120000, 0, 0)],
      [name |-> "small.png", image |-> Img("small.png", <<>>, <<16, 16>>, 100000, 90000, 3000)] }

\* lines 397-406
LoadHandler(S, sel, ok) ==
    LET img == load_dental_image(sel, ok)
        S1 == [S EXCEPT !.current_image = img, !.current_name = sel]
    IN  IF S.degraded = Null THEN S1
        ELSE IF ApplyRaises(img, S.degradation_type, S.severity)
             THEN [S1 EXCEPT !.aborted = "load"]
             ELSE LET d == apply_degradation(img, S.degradation_type, S.severity, S.rng)
                  IN  [S1 EXCEPT !.degraded = d.image, !.rng = d.rng]
\* faulty variant: the upload degrades the new image whether or not a
\* degradation was ever applied
UploadHandler_AlwaysDegrades(S, file) ==
    LET img == file.image
        S1 == [S EXCEPT !.current_image = img, !.current_name = file.name]
    IN  IF ApplyRaises(img, S.degradation_type, S.severity)
        THEN S1
        ELSE LET d == apply_degradation(img, S.degradation_type, S.severity, S.rng)
             IN  [S1 EXCEPT !.degraded = d.image, !.rng = d.rng]

\* lines 419-440; an exception is caught and reported
UploadHandler(S, file) ==
    LET img == file.image
        S1 == [S EXCEPT !.current_image = img, !.current_name = file.name]
    IN  IF S.degraded # Null
        THEN IF ApplyRaises(img, S.degradation_type, S.severity)
             THEN S1
             ELSE LET d == apply_degradation(img, S.degradation_type, S.severity, S.rng)
                  IN  [S1 EXCEPT !.degraded = d.image, !.rng = d.rng]
        ELSE [S1 EXCEPT !.enhanced = Null, !.analysis_done = FALSE]

\* faulty variant: Apply Degradation also clears the stored results
ApplyHandler_ClearsResults(S, dt, sev) ==
    IF ApplyRaises(S.current_image, dt, sev)
    THEN [S EXCEPT !.aborted = "apply"]
    ELSE LET d == apply_degradation(S.current_image, dt, sev, S.rng)
         IN  [S EXCEPT !.degraded = d.image, !.rng = d.rng,
                       !.degradation_type = dt, !.severity = sev,
                       !.enhanced = Null, !.analysis_done = FALSE,
                       !.teeth_data = Null, !.metrics = Null,
                       !.image_fingerprint = Null]

\* lines 450-458; an exception ends the script run
ApplyHandler(S, dt, sev) ==
    IF ApplyRaises(S.current_image, dt, sev)
    THEN [S EXCEPT !.aborted = "apply"]
    ELSE LET d == apply_degradation(S.current_image, dt, sev, S.rng)
         IN  [S EXCEPT !.degraded = d.image, !.rng = d.rng,
                       !.degradation_type = dt, !.severity = sev,
                       !.enhanced = Null, !.analysis_done = FALSE]
\* faulty variant: the enhancement is written over the degraded image
EnhanceHandler_InPlace(S) ==
    LET enhanced_img == enhance_image(S.degraded)
        fp == generate_image_fingerprint(enhanced_img)
        d == detect_teeth_based_on_image(enhanced_img, S.rng)
    IN  [S EXCEPT !.degraded = enhanced_img, !.enhanced = enhanced_img,
                  !.image_fingerprint = fp,
                  !.teeth_data = [list |-> d.teeth_data], !.rng = d.rng,
                  !.metrics = calculate_forensic_metrics_based_on_image(
                                  S.degraded, enhanced_img, d.teeth_data),
                  !.analysis_done = TRUE]
\* faulty variant: findings already in the session are kept instead of being
\* computed again for the new enhanced image
EnhanceHandler_KeepsResults(S) ==
    LET enhanced_img == enhance_image(S.degraded)
        fp == generate_image_fingerprint(enhanced_img)
        d == detect_teeth_based_on_image(enhanced_img, S.rng)
        td == IF S.teeth_data # Null THEN S.teeth_data.list ELSE d.teeth_data
    IN  [S EXCEPT !.enhanced = enhanced_img, !.image_fingerprint = fp,
                  !.teeth_data = [list |-> td], !.rng = d.rng,
                  !.metrics = IF S.metrics # Null THEN S.metrics
                              ELSE calculate_forensic_metrics_based_on_image(
                                       S.degraded, enhanced_img, td),
                  !.analysis_done = TRUE]

\* lines 479-501; an exception is caught and reported as "Enhancement failed"
EnhanceHandler(S) ==
    LET enhanced_img == enhance_image(S.degraded)
        fp == generate_image_fingerprint(enhanced_img)
        S1 == [S EXCEPT !.enhanced = enhanced_img, !.analysis_done = FALSE,
                        !.image_fingerprint = fp]
    IN  IF DetectRaises(enhanced_img)
        THEN [S1 EXCEPT !.enhance_failed = TRUE,
                        !.rng = np_random_seed(S.rng, BaseSeed(fp)
                                     + IntOfNumber(AnalyzedTeeth[1].number))]
        ELSE LET d == detect_teeth_based_on_image(enhanced_img, S.rng)
                 S2 == [S1 EXCEPT !.teeth_data = [list |-> d.teeth_data], !.rng = d.rng]
             IN  IF MetricsRaises(d.teeth_data)
                 THEN [S2 EXCEPT !.enhance_failed = TRUE]
                 ELSE [S2 EXCEPT
                         !.metrics = calculate_forensic_metrics_based_on_image(
                                         S.degraded, enhanced_img, d.teeth_data),
                         !.analysis_done = TRUE]

\* one run of the script, top to bottom, with at most one button clicked;
\* loaded is what the Load handler fetched and for which entry, seen the
\* images the clicked Apply or Enhance handler was entered with
RunScript(click, sel, file, dt, sev, ok) ==
    LET S0 == [current_image |-> current_image, current_name |-> current_name,
               degraded |-> degraded, enhanced |-> enhanced,
               analysis_done |-> analysis_done,
               degradation_type |-> degradation_type, severity |-> severity,
               metrics |-> metrics, teeth_data |-> teeth_data,
               image_fingerprint |-> image_fingerprint,
               rng |-> rng, aborted |-> "no", enhance_failed |-> FALSE,
               loaded |-> Null, seen |-> Null]
        S1 == IF click = "load"
              THEN [LoadHandler(S0, sel, ok) EXCEPT
                      !.loaded = [image |-> load_dental_image(sel, ok), name |-> sel]]
              ELSE S0
        S2 == IF S1.aborted = "no" /\ file # Null THEN UploadHandler(S1, file) ELSE S1
        S3 == IF S2.aborted = "no" /\ click = "apply"
              THEN [ApplyHandler(S2, dt, sev) EXCEPT
                      !.seen = [current_image |-> S2.current_image, degraded |-> Null]]
              ELSE S2
        S4 == IF S3.aborted = "no" /\ click = "enhance" /\ S3.degraded # Null
              THEN [EnhanceHandler(S3) EXCEPT
                      !.seen = [current_image |-> S3.current_image,
                                degraded |-> S3.degraded]]
              ELSE S3
    IN  S4

\* the session after the run, and what the run did
Commit(S, click, file) ==
    /\ current_image' = S.current_image
    /\ current_name' = S.current_name
    /\ degraded' = S.degraded
    /\ enhanced' = S.enhanced
    /\ analysis_done' = S.analysis_done
    /\ degradation_type' = S.degradation_type
    /\ severity' = S.severity
    /\ metrics' = S.metrics
    /\ teeth_data' = S.teeth_data
    /\ image_fingerprint' = S.image_fingerprint
    /\ rng' = S.rng
    /\ last_run' = [click |-> click, upload |-> file # Null,
                    aborted |-> S.aborted,
                    enhance_failed |-> S.enhance_failed,
                    loaded |-> S.loaded, seen |-> S.seen,
                    enhance_btn |-> S.aborted = "no" /\ S.degraded # Null]

GenIdle ==
    /\ gImg = Null
    /\ gOrig = Null
    /\ gRuns = <<>>
    /\ gProbe = Null

\* src/src/app.py before its first button click: no widget set, an empty
\* st.session_state
SplitIdle ==
    /\ split_uploaded_file = Null
    /\ selected_sample = "None"
    /\ session_state = [current_image |-> Null, analysis_results |-> Null]
    /\ results_image = Null
    /\ split_run = [click |-> "none", image |-> Null, operand |-> Null,
                    results |-> Null, results_of |-> Null]

\* lines 376-387, after the first script run of a session
SessionInit ==
    /\ current_image = create_simple_xray
    /\ current_name = "Default X-ray"
    /\ degraded = Null
    /\ enhanced = Null
    /\ analysis_done = FALSE
    /\ degradation_type = "Thermal Damage"
    /\ severity = 5
    /\ metrics = Null
    /\ teeth_data = Null
    /\ image_fingerprint = Null
    /\ uploaded_file = Null
    /\ rng \in 0..(RngMod - 1)
    /\ last_run = [click |-> "none", upload |-> FALSE, aborted |-> "no",
                   enhance_failed |-> FALSE, loaded |-> Null, seen |-> Null,
                   enhance_btn |-> FALSE]

Init == SessionInit /\ GenIdle /\ SplitIdle

\* The selectboxes and the slider are read anew by every run and kept nowhere
\* in st.session_state, so their values are inputs of the run; moving one of
\* them, or clicking a report button, is a run with no modelled button clicked.
Rerun ==
    /\ Commit(RunScript("none", DENTAL_IMAGE_LIBRARY[1], uploaded_file,
                        "Thermal Damage", 5, TRUE), "none", uploaded_file)
    /\ UNCHANGED <<uploaded_file, gen, split>>

ClickLoad ==
    \E n \in 1..Len(DENTAL_IMAGE_LIBRARY), ok \in BOOLEAN :
        /\ Commit(RunScript("load", DENTAL_IMAGE_LIBRARY[n], uploaded_file,
                            "Thermal Damage", 5, ok), "load", uploaded_file)
        /\ UNCHANGED <<uploaded_file, gen, split>>

\* the user puts a file in the uploader, or replaces the one in it; the
\* widget is drawn by every run that reaches line 419
UploadFile ==
    \E f \in UploadFiles :
        /\ last_run.aborted # "load"
        /\ f # uploaded_file
        /\ uploaded_file' = f
        /\ Commit(RunScript("none", DENTAL_IMAGE_LIBRARY[1], f,
                            "Thermal Damage", 5, TRUE), "none", f)
        /\ UNCHANGED <<gen, split>>

\* the user removes the file from the uploader
RemoveFile ==
    /\ last_run.aborted # "load"
    /\ uploaded_file # Null
    /\ uploaded_file' = Null
    /\ Commit(RunScript("none", DENTAL_IMAGE_LIBRARY[1], Null,
                        "Thermal Damage", 5, TRUE), "none", Null)
    /\ UNCHANGED <<gen, split>>

\* the button is drawn by every run that reaches line 450
ClickApply ==
    \E t \in DegradationTypes, v \in SliderValues :
        /\ last_run.aborted # "load"
        /\ Commit(RunScript("apply", DENTAL_IMAGE_LIBRARY[1], uploaded_file,
                            t, v, TRUE), "apply", uploaded_file)
        /\ UNCHANGED <<uploaded_file, gen, split>>

\* the button exists only if the previous run drew it (lines 469-477)
ClickEnhance ==
    /\ last_run.enhance_btn
    /\ Commit(RunScript("enhance", DENTAL_IMAGE_LIBRARY[1], uploaded_file,
                        "Thermal Damage", 5, TRUE), "enhance", uploaded_file)
    /\ UNCHANGED <<uploaded_file, gen, split>>

Next ==
    \/ Rerun
    \/ ClickLoad
    \/ UploadFile
    \/ RemoveFile
    \/ ClickApply
    \/ ClickEnhance

Spec == Init /\ [][Next]_vars

---------------------------------------------------------------------------
(* The generator functions called directly, on inputs drawn from bounded   *)
(* sets: an image, a second image, a position list, a tooth-record list    *)

GenStds == {0, 24996, 25000, 25004, 29990, 29996, 30000, 30004, 80000, 80004, 127500}

GenImage(std) ==
    Img("sample", <<>>, <<400, 600>>, 120000, std,
        IF std = 0 THEN 0 ELSE IF std = 127500 THEN 8000 ELSE 4000)

GenImages == {GenImage(std) : std \in GenStds}

GenOrigs == {create_simple_xray}

\* position lists other than the fixed one: the fixed list reversed, and
\* every list of at most MaxPosLen distinct positions of it
RECURSIVE Reverse(_)
Reverse(q) == IF q = <<>> THEN <<>> ELSE Append(Reverse(Tail(q)), Head(q))

RECURSIVE ListsOfLen(_)
ListsOfLen(n) ==
    IF n = 0 THEN {<<>>}
    ELSE {Append(q, AnalyzedTeeth[i]) :
            q \in ListsOfLen(n - 1),
            i \in 1..Len(AnalyzedTeeth)}

Distinct(q) == \A i, j \in 1..Len(q) : i # j => q[i] # q[j]

PositionLists ==
    {Reverse(AnalyzedTeeth)}
    \cup {q \in UNION {ListsOfLen(n) : n \in 1..MaxPosLen} : Distinct(q)}

\* eight tooth records with h healthy, t treated and the rest missing teeth
TeethOfCounts(h, t) ==
    [i \in 1..8 |->
        [number     |-> all_teeth[i].number,
         name       |-> all_teeth[i].name,
         type       |-> all_teeth[i].type,
         condition  |-> IF i <= h THEN "Healthy"
                        ELSE IF i <= h + t THEN "Crowned" ELSE "Missing",
         confidence |-> 900]]

\* numbers of healthy and of treated teeth tried
GenCounts == {0, 3, 8}

GenInit ==
    /\ SessionInit
    /\ gImg \in GenImages
    /\ gOrig \in GenOrigs
    /\ gRuns = <<>>
    /\ gProbe = Null
    /\ SplitIdle

\* a Thermal or Trauma degradation in between consumes random draws
GenDegrade ==
    \E t \in {"Thermal Damage", "Trauma Damage"} :
        /\ gProbe = Null
        /\ rng' = apply_degradation(gOrig, t, 10, rng).rng
        /\ UNCHANGED <<split, session, uploaded_file, last_run, gen>>

\* detect_teeth_based_on_image, then calculate_forensic_metrics_based_on_image
GenInvoke ==
    /\ Len(gRuns) < 2
    /\ ~DetectRaises(gImg)
    /\ LET d == detect_teeth_based_on_image(gImg, rng)
       IN  /\ ~MetricsRaises(d.teeth_data)
           /\ gRuns' = Append(gRuns,
                 [rng0 |-> rng,
                  teeth_data |-> d.teeth_data,
                  metrics |-> calculate_forensic_metrics_based_on_image(
                                  gOrig, gImg, d.teeth_data)])
           /\ rng' = d.rng
    /\ UNCHANGED <<split, session, uploaded_file, last_run, gImg, gOrig, gProbe>>

\* the same image over another position list
GenInvokeOn ==
    \E q \in PositionLists :
        /\ gRuns # <<>>
        /\ gProbe = Null
        /\ LET d == DetectTeethOn(gImg, q, rng)
           IN  /\ gProbe' = [kind |-> "positions", teeth |-> q,
                             teeth_data |-> d.teeth_data]
               /\ rng' = d.rng
        /\ UNCHANGED <<split, session, uploaded_file, last_run, gImg, gOrig, gRuns>>

\* another image over the fixed position list
GenInvokeOther ==
    \E image \in GenImages \ {gImg} :
        /\ gRuns # <<>>
        /\ gProbe = Null
        /\ LET d == detect_teeth_based_on_image(image, rng)
           IN  /\ gProbe' = [kind |-> "image", image |-> image,
                             teeth_data |-> d.teeth_data]
               /\ rng' = d.rng
        /\ UNCHANGED <<split, session, uploaded_file, last_run, gImg, gOrig, gRuns>>

\* the metrics of an arbitrary tooth-record list
GenMetricsOn ==
    \E h \in GenCounts, t \in GenCounts :
        /\ h + t <= 8
        /\ gRuns # <<>>
        /\ gProbe = Null
        /\ gProbe' = [kind |-> "teeth", teeth_data |-> TeethOfCounts(h, t),
                      quality |-> analyze_image_quality(gImg),
                      metrics |-> calculate_forensic_metrics_based_on_image(
                                      gOrig, gImg, TeethOfCounts(h, t))]
        /\ UNCHANGED <<split, session, uploaded_file, rng, last_run, gImg, gOrig, gRuns>>

GenNext ==
    \/ GenDegrade
    \/ GenInvoke
    \/ GenInvokeOn
    \/ GenInvokeOther
    \/ GenMetricsOn

SpecGen == GenInit /\ [][GenNext]_vars

---------------------------------------------------------------------------
(* The split-module app src/src/app.py.  An image is the file it was read  *)
(* from and the operations applied since; every action is one run of the   *)
(* script.  The step and degradation selectboxes are inputs of the run.    *)

\* longest chain of operations on an image of the split-module app
MaxOps == 2

\* the values a draw of the unseeded numpy generator is told apart by
NoiseDraws == 0..1
SplitUploads == {"evidence.png"}
sample_images == {"sample.png"}
SplitDegradeTypes == {"Thermal Damage", "Water Damage", "Trauma"}

\* Image.open followed by np.array
SplitImage(file) == [src |-> file, ops |-> <<>>]

\* lines 28-33: the upload wins over the sample
LoadedImage(upl, sam) ==
    IF upl # Null THEN SplitImage(upl.name)
    ELSE IF sam # "None" THEN SplitImage(sam)
    ELSE Null

\* str.lower on the three selectbox entries
Lower(t) ==
    CASE t = "Thermal Damage" -> "thermal damage"
      [] t = "Water Damage" -> "water damage"
      [] OTHER -> "trauma"

\* noise for thermal damage, a fixed blur for water damage, a random mask
\* otherwise
simulate_degradation(image, degrade_type, n) ==
    [src |-> image.src,
     ops |-> Append(image.ops,
                    CASE degrade_type = "thermal damage" -> <<"thermal", n>>
                      [] degrade_type = "water damage" -> <<"water", 0>>
                      [] OTHER -> <<"trauma", n>>)]

\* convertScaleAbs and unsharp mask
cv_enhance_image(image) ==
    [src |-> image.src, ops |-> Append(image.ops, <<"enhance", 0>>)]

\* the fixed mock findings, whatever the image
analyze_teeth(image) ==
    [dict |-> << [tooth |-> "Tooth 1", condition |-> "Filled", confidence |-> 92],
                 [tooth |-> "Tooth 2", condition |-> "Healthy", confidence |-> 98],
                 [tooth |-> "Tooth 3", condition |-> "Carious", confidence |-> 85] >>]

\* st.session_state.get("current_image", np.array(image))
SessionCurrentImage(image) ==
    IF session_state.current_image # Null THEN session_state.current_image
    ELSE image

mono == <<session, uploaded_file, rng, last_run, gen>>

\* a run in which no button is clicked: nothing is written to st.session_state
SplitRerun(upl, sam) ==
    /\ split_uploaded_file' = upl
    /\ selected_sample' = sam
    /\ split_run' = [click |-> "none", image |-> LoadedImage(upl, sam),
                     operand |-> Null, results |-> Null, results_of |-> Null]
    /\ UNCHANGED <<session_state, results_image, mono>>

SplitUploadFile ==
    \E f \in SplitUploads :
        /\ split_uploaded_file # [name |-> f]
        /\ SplitRerun([name |-> f], selected_sample)

SplitRemoveFile ==
    /\ split_uploaded_file # Null
    /\ SplitRerun(Null, selected_sample)

SelectSample ==
    \E n \in {"None"} \cup sample_images :
        /\ n # selected_sample
        /\ SplitRerun(split_uploaded_file, n)

\* lines 44-47
SimulateDamage ==
    LET image == LoadedImage(split_uploaded_file, selected_sample)
    IN  /\ image # Null
        /\ \E t \in SplitDegradeTypes, n \in NoiseDraws :
              LET degraded_img == simulate_degradation(image, Lower(t), n)
              IN  /\ session_state' = [session_state EXCEPT
                                          !.current_image = degraded_img]
                  /\ split_run' = [click |-> "simulate", image |-> image,
                                   operand |-> image, results |-> Null,
                                   results_of |-> Null]
        /\ UNCHANGED <<split_uploaded_file, selected_sample, results_image, mono>>

\* lines 50-54
EnhanceContrast ==
    LET image == LoadedImage(split_uploaded_file, selected_sample)
        current_img == SessionCurrentImage(image)
    IN  /\ image # Null
        /\ Len(current_img.ops) < MaxOps
        /\ session_state' = [session_state EXCEPT
                                !.current_image = cv_enhance_image(current_img)]
        /\ split_run' = [click |-> "enhance", image |-> image,
                         operand |-> current_img, results |-> Null,
                         results_of |-> Null]
        /\ UNCHANGED <<split_uploaded_file, selected_sample, results_image, mono>>

\* lines 58-64
RunAnalysis ==
    LET image == LoadedImage(split_uploaded_file, selected_sample)
        current_img == SessionCurrentImage(image)
        results == analyze_teeth(current_img)
    IN  /\ image # Null
        /\ session_state' = [session_state EXCEPT !.analysis_results = results]
        /\ results_image' = current_img
        /\ split_run' = [click |-> "analysis", image |-> image,
                         operand |-> current_img, results |-> results,
                         results_of |-> current_img]
        /\ UNCHANGED <<split_uploaded_file, selected_sample, mono>>

\* lines 68-87; an absent analysis_results reads as the empty dict
GeneratePdfReport ==
    LET image == LoadedImage(split_uploaded_file, selected_sample)
        current_img == SessionCurrentImage(image)
        results == IF session_state.analysis_results # Null
                   THEN session_state.analysis_results ELSE [dict |-> <<>>]
    IN  /\ image # Null
        /\ split_run' = [click |-> "report", image |-> image,
                         operand |-> current_img, results |-> results,
                         results_of |-> results_image]
        /\ UNCHANGED <<split_uploaded_file, selected_sample, session_state,
                       results_image, mono>>

SplitInit == SessionInit /\ rng = 0 /\ GenIdle /\ SplitIdle

SplitNext ==
    \/ SplitUploadFile
    \/ SplitRemoveFile
    \/ SelectSample
    \/ SimulateDamage
    \/ EnhanceContrast
    \/ RunAnalysis
    \/ GeneratePdfReport

SpecSplit == SplitInit /\ [][SplitNext]_vars

---------------------------------------------------------------------------
(* Properties *)

RunsDone == gRuns # <<>>
ProbeIs(kind) == gProbe # Null /\ gProbe.kind = kind

\* the conditions and confidences of a tooth-record list, in order
CondConf(td) == [i \in 1..Len(td) |-> <<td[i].condition, td[i].confidence>>]

\* C1: after a run that loaded, uploaded or degraded an image the analysis is
\* invalidated (enhanced is null, analysis_done is false), and an enhanced
\* image on show is always the enhancement of the current degraded image.
C1_AnalysisInvalidatedOnImageChange ==
    /\ (last_run.click \in {"load", "apply"} \/ (last_run.upload /\ last_run.click # "enhance"))
           => (enhanced = Null /\ ~analysis_done)
    /\ enhanced # Null => (degraded # Null /\ enhanced = enhance_image(degraded))

\* C2: teeth_data, metrics and image_fingerprint change only in a run in
\* which ENHANCE IMAGE was clicked; Load Image, upload and Apply Degradation
\* leave them as they were.
C2_ResultsOnlyByEnhance ==
    [][(teeth_data' # teeth_data \/ metrics' # metrics
            \/ image_fingerprint' # image_fingerprint)
          => last_run'.click = "enhance"]_vars

\* C2 witness: a Load, upload or Apply run that ended with earlier results
\* still in place
C2_Witness ==
    /\ last_run.click \in {"load", "apply"}
    /\ teeth_data # Null /\ metrics # Null /\ image_fingerprint # Null

\* C3: two invocations on the same image return the same tooth records and
\* the same metrics, whatever the generator state before each.
C3_Deterministic ==
    Len(gRuns) = 2 =>
        /\ gRuns[1].teeth_data = gRuns[2].teeth_data
        /\ gRuns[1].metrics = gRuns[2].metrics

\* C3 witness: the second invocation started from another generator state
C3_Witness ==
    /\ Len(gRuns) = 2
    /\ gRuns[1].rng0 # gRuns[2].rng0

SameFingerprint(a, b) == generate_image_fingerprint(a) = generate_image_fingerprint(b)

\* the side of each of the thresholds 25, 30 and 80 the unrounded standard
\* deviation lies on
StdClass(std) == <<std < 25000, std < 30000, std > 80000>>

\* C4 as claimed: two images with the same fingerprint yield the same
\* conditions and confidences.
C4_FingerprintDeterminesTeeth ==
    (RunsDone /\ ProbeIs("image") /\ SameFingerprint(gImg, gProbe.image))
        => CondConf(gProbe.teeth_data) = CondConf(gRuns[1].teeth_data)

\* C4 as amended: two images with the same fingerprint whose unrounded
\* standard deviations lie on the same side of the thresholds 25, 30 and 80
\* yield the same conditions and confidences.
C4_FingerprintAndStdClassDetermineTeeth ==
    (/\ RunsDone /\ ProbeIs("image")
     /\ SameFingerprint(gImg, gProbe.image)
     /\ StdClass(gImg.std) = StdClass(gProbe.image.std))
        => CondConf(gProbe.teeth_data) = CondConf(gRuns[1].teeth_data)

\* C4 witness: two different images with one fingerprint, on the same side
\* of every threshold
C4_Witness ==
    /\ RunsDone /\ ProbeIs("image")
    /\ gImg.std # gProbe.image.std
    /\ SameFingerprint(gImg, gProbe.image)
    /\ StdClass(gImg.std) = StdClass(gProbe.image.std)

\* C5: over any other order or any subset of the positions, every position
\* gets the condition and confidence it gets in the original order.
C5_OrderIndependent ==
    (RunsDone /\ ProbeIs("positions")) =>
        \A i \in 1..Len(gProbe.teeth_data) :
            \E j \in 1..Len(gRuns[1].teeth_data) :
                /\ gRuns[1].teeth_data[j].number = gProbe.teeth_data[i].number
                /\ gRuns[1].teeth_data[j].condition = gProbe.teeth_data[i].condition
                /\ gRuns[1].teeth_data[j].confidence = gProbe.teeth_data[i].confidence

\* C5 witness: the whole list in reverse order has been processed, and the
\* teeth do not all share one outcome
C5_Witness ==
    /\ RunsDone /\ ProbeIs("positions")
    /\ Len(gProbe.teeth) = Len(AnalyzedTeeth)
    /\ gProbe.teeth[1] = AnalyzedTeeth[Len(AnalyzedTeeth)]
    /\ \E i, j \in 1..Len(gProbe.teeth_data) :
           gProbe.teeth_data[i].condition # gProbe.teeth_data[j].condition

\* C6: every emitted confidence lies in [0, 1].
C6_ConfidenceInUnitInterval ==
    \A r \in 1..Len(gRuns) : \A i \in 1..Len(gRuns[r].teeth_data) :
        /\ gRuns[r].teeth_data[i].confidence >= 0
        /\ gRuns[r].teeth_data[i].confidence <= 1000

\* the table C7 states for a standard deviation, and the condition it gives
\* the tooth of a position for an image
C7_Table(std) ==
    IF std < 30000 THEN <<400, 200, 100, 100, 100, 80, 20>>
    ELSE <<600, 150, 80, 60, 50, 40, 20>>

C7_Condition(image, number, table) ==
    np_random_choice(conditions, table,
        Seed(BaseSeed(generate_image_fingerprint(image)) + IntOfNumber(number))).value

C7_TeethFollow(image, td) ==
    \A i \in 1..Len(td) :
        td[i].condition = C7_Condition(image, td[i].number, C7_Table(image.std))

\* C7: below 30 every tooth of the run is drawn from the low-contrast table,
\* at 30.0 or above every tooth is drawn from the default table.
C7_TableByStrictThreshold ==
    /\ \A r \in 1..Len(gRuns) : C7_TeethFollow(gImg, gRuns[r].teeth_data)
    /\ ProbeIs("image") => C7_TeethFollow(gProbe.image, gProbe.teeth_data)

\* C7 witness: 29.99 and 30.0 have both been analysed, and on each the other
\* table would have given some tooth another condition
C7_Witness ==
    /\ RunsDone /\ ProbeIs("image")
    /\ gImg.std = 29990 /\ gProbe.image.std = 30000
    /\ \E i \in 1..Len(gRuns[1].teeth_data) :
           gRuns[1].teeth_data[i].condition
              # C7_Condition(gImg, gRuns[1].teeth_data[i].number, C7_Table(30000))
    /\ \E i \in 1..Len(gProbe.teeth_data) :
           gProbe.teeth_data[i].condition
              # C7_Condition(gProbe.image, gProbe.teeth_data[i].number, C7_Table(29990))

\* the factor C8 states, in tenths
C8_Factor(std) == IF std < 25000 THEN 8 ELSE IF std > 80000 THEN 11 ELSE 10

\* the confidence drawn for the tooth of a position, before the adjustment
C8_Drawn(image, number) ==
    np_random_uniform(Step(
        Seed(BaseSeed(generate_image_fingerprint(image)) + IntOfNumber(number)))).value

C8_TeethFollow(image, td) ==
    \A i \in 1..Len(td) :
        td[i].confidence
            = RoundDiv(C8_Drawn(image, td[i].number) * C8_Factor(image.std), 1000)

\* C8: the drawn confidence is multiplied by 0.8 below 25, by 1.1 above 80
\* and left unchanged on [25, 80], the same way for all teeth of a run.
C8_ConfidenceAdjustment ==
    /\ \A r \in 1..Len(gRuns) : C8_TeethFollow(gImg, gRuns[r].teeth_data)
    /\ ProbeIs("image") => C8_TeethFollow(gProbe.image, gProbe.teeth_data)

\* C8 witness: 25.0 has been analysed and left in the drawn range, 24.996
\* has been analysed and scaled below it
C8_Witness ==
    /\ RunsDone /\ ProbeIs("image")
    /\ gImg.std = 25000 /\ gProbe.image.std = 24996
    /\ \E i \in 1..Len(gRuns[1].teeth_data) :
           gRuns[1].teeth_data[i].confidence >= 750
    /\ \E i \in 1..Len(gProbe.teeth_data) :
           gProbe.teeth_data[i].confidence < 750

\* C9: clarity, sharpness, forensic_utility and identification_confidence are
\* at most 100 for every image and every tooth-record list.
C9_Bounded(m) ==
    /\ m.image_clarity <= 1000
    /\ m.sharpness_quality <= 1000
    /\ m.forensic_utility <= 1000
    /\ m.identification_confidence <= 1000

C9_MetricsAtMost100 ==
    /\ \A r \in 1..Len(gRuns) : C9_Bounded(gRuns[r].metrics)
    /\ ProbeIs("teeth") =>
          /\ C9_Bounded(gProbe.metrics)
          /\ gProbe.quality.clarity <= 1000
          /\ gProbe.quality.sharpness <= 1000

\* C9 witness: all eight teeth treated on the sharpest image, where the sum
\* exceeds 100 before the cap
C9_Witness ==
    /\ ProbeIs("teeth")
    /\ \A i \in 1..Len(gProbe.teeth_data) : gProbe.teeth_data[i].condition = "Crowned"
    /\ gImg.std = 127500
    /\ gProbe.metrics.forensic_utility = 1000
    /\ gProbe.metrics.identification_confidence = 1000

\* C10: a run in which ENHANCE IMAGE was clicked ends with enhanced,
\* image_fingerprint, teeth_data and metrics set and analysis_done true, never
\* in the "Enhancement failed" branch.
C10_EnhanceNeverFails ==
    last_run.click = "enhance" =>
        /\ ~last_run.enhance_failed
        /\ enhanced # Null
        /\ image_fingerprint # Null
        /\ teeth_data # Null
        /\ metrics # Null
        /\ analysis_done

\* C10 witness: a zero-variance image has been enhanced and analysed
C10_Witness ==
    /\ last_run.click = "enhance"
    /\ enhanced # Null
    /\ enhanced.std = 0 /\ enhanced.ent = 0
    /\ analysis_done

C12_NewImageReplacesOld ==
    split_run.click \in {"enhance", "analysis", "report"} =>
        /\ split_run.operand.src = split_run.image.src
        /\ (split_run.click = "report" /\ split_run.results_of # Null) =>
              split_run.results_of.src = split_run.image.src

\* C13: an enhanced image, and a finished analysis, exist only together with
\* a degraded image; degraded leaves null only in a run in which Apply
\* Degradation is clicked, every Enhance run starts with degraded set, and
\* degraded never returns to null.
C13_EnhancedImpliesDegraded ==
    /\ [](enhanced # Null => degraded # Null)
    /\ [](analysis_done => degraded # Null)
    /\ [][(degraded = Null /\ degraded' # Null) => last_run'.click = "apply"]_vars
    /\ [][last_run'.click = "enhance" => degraded # Null]_vars
    /\ [][degraded # Null => degraded' # Null]_vars

\* C13 witness: the analysis of an enhanced image is kept while a later Load
\* Image or upload has re-derived degraded
C13_Witness ==
    /\ enhanced # Null
    /\ analysis_done
    /\ degraded # Null
    /\ last_run.click # "enhance"
    /\ enhanced # enhance_image(degraded)

\* the fields of the metrics that do not depend on the original image
EnhancedPart(m) ==
    [image_clarity             |-> m.image_clarity,
     sharpness_quality         |-> m.sharpness_quality,
     forensic_utility          |-> m.forensic_utility,
     identification_confidence |-> m.identification_confidence,
     distinctive_features      |-> m.distinctive_features,
     dental_health_score       |-> m.dental_health_score]

\* C14: whenever enhanced is set at the end of a script run, image_fingerprint,
\* teeth_data and metrics are set and are the values computed from that
\* enhanced image (and, at the end of an Enhance run, from the degraded image
\* it was made from), not values of an earlier Enhance.
C14_ResultsBelongToEnhanced ==
    enhanced # Null =>
        /\ image_fingerprint # Null /\ teeth_data # Null /\ metrics # Null
        /\ image_fingerprint = generate_image_fingerprint(enhanced)
        /\ teeth_data.list = detect_teeth_based_on_image(enhanced, 0).teeth_data
        /\ EnhancedPart(metrics) =
              EnhancedPart(calculate_forensic_metrics_based_on_image(
                               enhanced, enhanced, teeth_data.list))
        /\ last_run.click = "enhance" =>
              metrics = calculate_forensic_metrics_based_on_image(
                            last_run.seen.degraded, enhanced, teeth_data.list)

\* C14 witness: an uploaded image has been enhanced and the session holds
\* the fingerprint and findings of that enhancement
C14_Witness ==
    /\ last_run.click = "enhance"
    /\ current_name = "small.png"
    /\ enhanced # Null /\ enhanced.src = current_image.src
    /\ metrics # Null /\ teeth_data # Null
    /\ image_fingerprint = generate_image_fingerprint(enhanced)

\* degraded is what apply_degradation returns for the session's current_image
\* with the stored degradation_type and severity, for some draw of the noise
IsDegradationOfCurrent ==
    /\ ~ApplyRaises(current_image, degradation_type, severity)
    /\ \E s \in 0..(RngMod - 1) :
          degraded = apply_degradation(current_image, degradation_type,
                                       severity, s).image

\* C15: whenever degraded is set, it is a degradation of the session's current
\* current_image made with the stored degradation_type and the stored
\* severity.
C15_DegradedFollowsCurrentImage ==
    degraded # Null => IsDegradationOfCurrent

\* C16: a script run in which Load Image is clicked ends with current_image
\* the image load_dental_image returned for the selected entry and
\* current_name the selected name, with or without a file in the uploader.
C16_LoadSetsCurrentImage ==
    last_run.click = "load" =>
        /\ current_image = last_run.loaded.image
        /\ current_name = last_run.loaded.name

\* C17: a second click on ENHANCE IMAGE right after the first leaves enhanced,
\* image_fingerprint, teeth_data, metrics and analysis_done as the first click
\* left them.
C17_EnhanceIdempotent ==
    [][(last_run.click = "enhance" /\ last_run'.click = "enhance") =>
          /\ enhanced' = enhanced
          /\ image_fingerprint' = image_fingerprint
          /\ teeth_data' = teeth_data
          /\ metrics' = metrics
          /\ analysis_done' = analysis_done]_vars

=============================================================================
